---- MODULE Spec2Model ----
(***************************************************************************)
(* Model of the horizon hub (pkg/hub/hub.go): Hub.Serve accepts physical   *)
(* connections and runs Hub.handleConn for each of them concurrently.      *)
(* handleConn reads the Preamble, validates the token, registers the       *)
(* advertised services with the control plane, installs the yamux session  *)
(* in Hub.active, accepts streams, and unwinds its defers on return.       *)
(***************************************************************************)
EXTENDS Integers, Sequences, FiniteSets, TLC

\* ---------------------------------------------------------------- bounds
NConn == 2          \* physical connections handled by the hub
NIds == 2           \* distinct service ids a Preamble may advertise
MaxServices == 2    \* services in one Preamble
MaxStreams == 1     \* streams a peer opens on a connection accepted by Serve
NHzn == 1           \* connections handed to handleHZN by the ingress
MaxHznStreams == 2  \* streams a peer opens on a connection of handleHZN

Conns == 1..NConn
HznConns == 1..NHzn

NCalls == 2         \* calls received by the InboundServer
MaxAuth == 2        \* values of the authorization entry of a call
NCallers == 2       \* goroutines calling GRPCDial.Dial
NTargets == 2       \* hub addresses dialed
MaxDialCalls == 2   \* Dial calls of one caller
MaxCatalog == 3     \* hub addresses the HubCatalog may list
MaxAdvertise == 2   \* calls of Broadcaster.AdvertiseServices

InboundCalls == 1..NCalls
Callers == 1..NCallers
Targets == 1..NTargets
NoCaller == 0
NoConn == 0
BTargets == 1..MaxCatalog

\* tokens presented to the InboundServer: one CheckTokenED25519 refuses, one
\* of role CONTROL, one of another role
InboundTokens == {"invalid", "control", "agent"}
AuthValues == UNION {[1..n -> InboundTokens] : n \in 0..MaxAuth}
Requests ==
    {[op |-> o, md |-> FALSE, auth |-> <<>>] : o \in {"AddServices", "AddLabeLink"}}
    \cup {[op |-> o, md |-> TRUE, auth |-> a] :
              o \in {"AddServices", "AddLabeLink"}, a \in AuthValues}
ErrBadControlToken == "bad control token"
ServiceIds == 1..NIds
NoSession == 0

\* A token is abstracted by what CheckTokenED25519 and HasCapability make of it.
Tokens == {"invalid", "agent", "serve"}

\* Tag 1 announces a Preamble; 2 stands for every other tag.
FrameTags == {1, 2}

SeqsUpTo(S, n) == UNION {[1..m -> S] : m \in 0..n}

\* what HubCatalog.Targets() may return: lists of distinct addresses
Catalogs ==
    {l \in SeqsUpTo(BTargets, MaxCatalog) :
        \A i, j \in 1..Len(l) : l[i] = l[j] => i = j}

Preambles == [Token : Tokens, Services : SeqsUpTo(ServiceIds, MaxServices)]

ZeroPreamble == [Token |-> "invalid", Services |-> <<>>]

\* error values as Run sees them: the dynamic type of the error, and for a
\* *net.OpError its Op and the text of its Err field; for any other type
\* Err is the text of the error itself
NilErr == [type |-> "nil", Op |-> "", Err |-> ""]

ClosedConn == "use of closed network connection"

IngressErrs ==
    {NilErr}
    \cup [type : {"*net.OpError"}, Op : {"accept", "read"},
          Err : {ClosedConn, "connection reset by peer"}]
    \cup [type : {"*errors.errorString", "*fmt.wrapError"}, Op : {""},
          Err : {ClosedConn, "context canceled"}]

VARIABLES
    serving,    \* Hub.Serve is still in its accept loop
    pc,         \* position of each handleConn
    conn,       \* the net.Conn of each handleConn: "none", "open", "closed"
    deferred,   \* the defer stack of each handleConn (last element runs first)
    fr,         \* the connection's FramingReader: "none", "live", "recycled"
    fw,         \* the connection's FramingWriter: "none", "live", "recycled",
                \* "recycled twice"
    rd,         \* result of fr.ReadMarshal(&preamble)
    preamble,   \* the decoded pb.Preamble
    vt,         \* result of h.ValidateToken: "none", "invalid", "valid"
    wrote,      \* fw.WriteMarshal(1, &wc) calls: [status, ok]
    addLog,     \* h.cc.AddService calls: [id, ok]
    removeLog,  \* h.cc.RemoveService calls: [id, ok]
    sess,       \* the yamux session: "none", "open", "closed"
    active,     \* Hub.active: service id -> session (named by its connection)
    streams,    \* outcome of each accepted stream
    sfr,        \* the FramingReader of each accepted stream
    sfw,        \* the FramingWriter of each accepted stream
    handlers,   \* the handleAgentStream goroutine of each accepted stream
    peerStreams,\* number of streams the peer opens on each connection
    wg,         \* Hub.wg: the WaitGroup counter
    drain,      \* the call of Hub.WaitToDrain: "idle", "waiting", "returned"
    hmu,        \* Hub.mu: the handler holding the write lock, 0 when free
    midx        \* services done by a handler in its loop under Hub.mu

streamVars == <<sfr, sfw, handlers>>
drainVars == <<peerStreams, wg, drain>>
muVars == <<hmu, midx>>

hubVars == <<serving, pc, conn, deferred, fr, fw, rd, preamble, vt, wrote,
             addLog, removeLog, sess, active, streams, streamVars, drainVars,
             muVars>>

VARIABLES
    ipc,        \* position of each inbound call
    ireq,       \* its operation, incoming metadata and authorization values
    ierr,       \* what checkValidToken returned to it
    ireply,     \* what the call returned: a Noop or nil, and an error
    applied     \* updates invoked on InboundServer.Client, in order

VARIABLES
    dpc,        \* position of each caller of GRPCDial.Dial
    dtarget,    \* the target it dials
    dhit,       \* cc of its lookup under the read lock, 0 when !ok
    dres,       \* what Dial returned to it
    ncalls,     \* the Dial calls it has made
    mu,         \* GRPCDial.mu: the readers and the writer holding it
    grpcConns,  \* GRPCDial.grpcConns: target -> connection, 0 when absent
    dials       \* the grpc.Dial attempts, in order

VARIABLES
    catalog,    \* what b.catalog.Targets() returns at present
    bpc,        \* position of AdvertiseServices: "idle", "loop", "returned"
    btargets,   \* targets := b.catalog.Targets() of the call
    attempts,   \* the targets the loop has gone through: [target, out]
    topError,   \* the errors appended to topError so far (<<>> is nil)
    bret,       \* the error the call returned (<<>> is nil)
    bcalls      \* the calls of AdvertiseServices made

VARIABLES
    rpc,        \* position of Hub.Run: "idle", "RunIngress", "returned"
    ingressErr, \* the error hub.cc.RunIngress returned
    runRet      \* the error Run returned

inboundVars == <<ipc, ireq, ierr, ireply, applied>>
poolVars == <<dpc, dtarget, dhit, dres, ncalls, mu, grpcConns, dials>>
bcastVars == <<catalog, bpc, btargets, attempts, topError, bret, bcalls>>
runVars == <<rpc, ingressErr, runRet>>
ctlVars == <<inboundVars, poolVars, bcastVars, runVars>>

vars == <<hubVars, ctlVars>>

\* ------------------------------------------------------------- helpers
Last(s) == s[Len(s)]
Push(s, e) == Append(s, e)
Pop(s) == SubSeq(s, 1, Len(s) - 1)
Top(s) == IF Len(s) = 0 THEN "none" ELSE s[Len(s)]
Range(s) == {s[i] : i \in 1..Len(s)}
Ids(log) == [i \in 1..Len(log) |-> log[i].id]
Statuses(c) == [i \in 1..Len(wrote[c]) |-> wrote[c][i].status]
Services(c) == preamble[c].Services
KeysOf(c) == {k \in ServiceIds : active[k] = c}

\* ---------------------------------------------------------------- Init
InitHub ==
    /\ serving = TRUE
    /\ pc = [c \in Conns |-> "idle"]
    /\ conn = [c \in Conns |-> "none"]
    /\ deferred = [c \in Conns |-> <<>>]
    /\ fr = [c \in Conns |-> "none"]
    /\ fw = [c \in Conns |-> "none"]
    /\ rd = [c \in Conns |-> [done |-> FALSE, err |-> FALSE, tag |-> 0]]
    /\ preamble = [c \in Conns |-> ZeroPreamble]
    /\ vt = [c \in Conns |-> "none"]
    /\ wrote = [c \in Conns |-> <<>>]
    /\ addLog = [c \in Conns |-> <<>>]
    /\ removeLog = [c \in Conns |-> <<>>]
    /\ sess = [c \in Conns |-> "none"]
    /\ active = [k \in ServiceIds |-> NoSession]
    /\ streams = [c \in Conns |-> <<>>]
    /\ sfr = [c \in Conns |-> <<>>]
    /\ sfw = [c \in Conns |-> <<>>]
    /\ handlers = [c \in Conns |-> <<>>]
    /\ wg = 0
    /\ drain = "idle"
    /\ hmu = NoSession
    /\ midx = [c \in Conns |-> 0]

\* an InboundServer that has received no call
InitInbound ==
    /\ ipc = [k \in InboundCalls |-> "idle"]
    /\ ireq = [k \in InboundCalls |-> [op |-> "AddServices", md |-> FALSE, auth |-> <<>>]]
    /\ ierr = [k \in InboundCalls |-> "nil"]
    /\ ireply = [k \in InboundCalls |-> [noop |-> FALSE, err |-> "nil"]]
    /\ applied = <<>>

\* NewGRPCDial: grpcConns: make(map[string]*grpc.ClientConn)
InitPool ==
    /\ dpc = [k \in Callers |-> "idle"]
    /\ dtarget = [k \in Callers |-> 1]
    /\ dhit = [k \in Callers |-> NoConn]
    /\ dres = [k \in Callers |-> [cc |-> NoConn, err |-> FALSE]]
    /\ ncalls = [k \in Callers |-> 0]
    /\ mu = [readers |-> {}, writer |-> NoCaller]
    /\ grpcConns = [t \in Targets |-> NoConn]
    /\ dials = <<>>

\* NewBroadcaster; the catalog lists no hub yet
InitBroadcast ==
    /\ catalog = <<>>
    /\ bpc = "idle"
    /\ btargets = <<>>
    /\ attempts = <<>>
    /\ topError = <<>>
    /\ bret = <<>>
    /\ bcalls = 0

\* Run has not been called
InitRun ==
    /\ rpc = "idle"
    /\ ingressErr = NilErr
    /\ runRet = NilErr

Init ==
    /\ InitHub
    /\ peerStreams = [c \in Conns |-> MaxStreams]
    /\ InitInbound
    /\ InitPool
    /\ InitBroadcast
    /\ InitRun

\* ------------------------------------------------- decisions of the code
\* (mutant) a validator that accepts every token
ValidateToken_AcceptsAll(stoken) == TRUE

\* h.ValidateToken(preamble.Token): err == nil
ValidateToken(stoken) == stoken # "invalid"

\* (mutant) a token that is taken to carry every capability
HasCapability_Always(token, capability) == TRUE

\* vt.HasCapability(capability)
HasCapability(token, capability) == capability = "hzn:serve" /\ token = "serve"

\* (mutant) the tag of the first frame is not looked at
TagAccepted_Any(tag) == TRUE

\* if tag != 1 { return }
TagAccepted(tag) == tag = 1

\* (mutant) the capability is asked for whatever the Preamble advertises
CapabilityRequired_Always(p) == TRUE

\* if len(preamble.Services) > 0 { ... HasCapability ... }
CapabilityRequired(p) == Len(p.Services) > 0

\* (mutant) an AddService error is logged and the loop goes on
AfterAddService_IgnoreErr(ok, i, n) ==
    IF i = n THEN "WriteConfirmation" ELSE "AddService"

\* where handleConn goes after the i-th AddService of n: return on error
AfterAddService(ok, i, n) ==
    IF ~ok THEN "return" ELSE IF i = n THEN "WriteConfirmation" ELSE "AddService"

\* (mutant) the error of writing the Confirmation is logged, no return
AfterConfirmation_IgnoreErr(ok) == "yamux.Server"

\* where handleConn goes after fw.WriteMarshal(1, &wc) of "connected"
AfterConfirmation(ok) == IF ok THEN "yamux.Server" ELSE "return"

\* (mutant) the deferred loop stops at the first RemoveService error
RemoveLoopDone_StopOnErr(ok, i, n) == ~ok \/ i >= n

\* the deferred RemoveService loop is over after the i-th call of n:
\* an error is logged and the loop goes on
RemoveLoopDone(ok, i, n) == i >= n

\* (mutant) only the first advertised service is installed
Installed_FirstOnly(act, c, servs) ==
    [k \in ServiceIds |-> IF Len(servs) > 0 /\ k = servs[1] THEN c ELSE act[k]]

\* for _, serv := range preamble.Services { h.active[key] = sess }
Installed(act, c, servs) ==
    [k \in ServiceIds |-> IF k \in Range(servs) THEN c ELSE act[k]]

\* (mutant) the deferred delete leaves the map as it is
Deleted_None(act, c, servs) == act

\* for _, serv := range preamble.Services { delete(h.active, key) }
Deleted(act, c, servs) ==
    [k \in ServiceIds |-> IF k \in Range(servs) THEN NoSession ELSE act[k]]

\* ----------------------------------------------------------- Hub.Serve
\* conn, err := l.Accept(); go h.handleConn(ctx, conn)
\* (connections are numbered in the order in which Serve accepts them)
AcceptConn(c) ==
    /\ serving
    /\ pc[c] = "idle"
    /\ \A b \in Conns : b < c => pc[b] # "idle"
    /\ pc' = [pc EXCEPT ![c] = "NewFramingReader"]
    /\ conn' = [conn EXCEPT ![c] = "open"]
    /\ deferred' = [deferred EXCEPT ![c] = <<"conn.Close">>]
    /\ UNCHANGED <<ctlVars, muVars, streamVars, drainVars, serving, fr, fw, rd, preamble, vt, wrote, addLog,
                   removeLog, sess, active, streams>>

\* l.Accept() fails: Serve returns the error
AcceptError ==
    /\ serving
    /\ serving' = FALSE
    /\ UNCHANGED <<ctlVars, muVars, streamVars, drainVars, pc, conn, deferred, fr, fw, rd,
                   preamble, vt, wrote, addLog, removeLog, sess, active, streams>>

\* ------------------------------------------------------ Hub.handleConn
\* fr, err := wire.NewFramingReader(conn); defer fr.Recycle()
NewFramingReader(c) ==
    /\ pc[c] = "NewFramingReader"
    /\ \E ok \in BOOLEAN :
        IF ok
        THEN /\ fr' = [fr EXCEPT ![c] = "live"]
             /\ deferred' = [deferred EXCEPT ![c] = Push(@, "fr.Recycle")]
             /\ pc' = [pc EXCEPT ![c] = "ReadMarshal"]
        ELSE /\ pc' = [pc EXCEPT ![c] = "return"]
             /\ UNCHANGED <<fr, deferred>>
    /\ UNCHANGED <<ctlVars, muVars, streamVars, drainVars, serving, conn, fw, rd, preamble, vt, wrote, addLog,
                   removeLog, sess, active, streams>>

\* tag, _, err := fr.ReadMarshal(&preamble); the tag must be 1
ReadMarshal(c) ==
    /\ pc[c] = "ReadMarshal"
    /\ \/ /\ rd' = [rd EXCEPT ![c] = [done |-> TRUE, err |-> TRUE, tag |-> 0]]
          /\ pc' = [pc EXCEPT ![c] = "return"]
          /\ UNCHANGED preamble
       \/ \E tag \in FrameTags, p \in Preambles :
          /\ rd' = [rd EXCEPT ![c] = [done |-> TRUE, err |-> FALSE, tag |-> tag]]
          \* a frame that is not a Preamble is never looked at again
          /\ preamble' = [preamble EXCEPT ![c] = IF tag = 1 THEN p ELSE @]
          /\ pc' = [pc EXCEPT ![c] =
                        IF TagAccepted(tag) THEN "NewFramingWriter" ELSE "return"]
    /\ UNCHANGED <<ctlVars, muVars, streamVars, drainVars, serving, conn, deferred, fr, fw, vt, wrote, addLog,
                   removeLog, sess, active, streams>>

\* fw, err := wire.NewFramingWriter(conn); fw.Recycle()
NewFramingWriter(c) ==
    /\ pc[c] = "NewFramingWriter"
    /\ \E ok \in BOOLEAN :
        IF ok
        THEN /\ fw' = [fw EXCEPT ![c] = "recycled"]
             /\ pc' = [pc EXCEPT ![c] = "ValidateToken"]
        ELSE /\ pc' = [pc EXCEPT ![c] = "return"]
             /\ UNCHANGED fw
    /\ UNCHANGED <<ctlVars, muVars, streamVars, drainVars, serving, conn, deferred, fr, rd, preamble, vt, wrote,
                   addLog, removeLog, sess, active, streams>>

\* (mutant) the return after the "bad-token" Confirmation is missing
CheckToken_NoReturn(c) ==
    /\ pc[c] = "ValidateToken"
    /\ vt' = [vt EXCEPT ![c] = IF ValidateToken(preamble[c].Token)
                                THEN "valid" ELSE "invalid"]
    /\ IF ValidateToken(preamble[c].Token)
       THEN UNCHANGED wrote
       ELSE \E ok \in BOOLEAN :
                wrote' = [wrote EXCEPT ![c] =
                             Append(@, [status |-> "bad-token", ok |-> ok])]
    /\ pc' = [pc EXCEPT ![c] = "HasCapability"]
    /\ UNCHANGED <<ctlVars, muVars, streamVars, drainVars, serving, conn, deferred, fr, fw, rd,
                   preamble, addLog, removeLog, sess, active, streams>>

\* vt, err := h.ValidateToken(preamble.Token); on error write "bad-token"
CheckToken(c) ==
    /\ pc[c] = "ValidateToken"
    /\ IF ValidateToken(preamble[c].Token)
       THEN /\ vt' = [vt EXCEPT ![c] = "valid"]
            /\ pc' = [pc EXCEPT ![c] = "HasCapability"]
            /\ UNCHANGED wrote
       ELSE /\ vt' = [vt EXCEPT ![c] = "invalid"]
            /\ \E ok \in BOOLEAN :
                wrote' = [wrote EXCEPT ![c] =
                             Append(@, [status |-> "bad-token", ok |-> ok])]
            /\ pc' = [pc EXCEPT ![c] = "return"]
    /\ UNCHANGED <<ctlVars, muVars, streamVars, drainVars, serving, conn, deferred, fr, fw, rd, preamble, addLog,
                   removeLog, sess, active, streams>>

\* if len(preamble.Services) > 0 && !HasCapability("hzn:serve"):
\* write "bad-token-capability" and return
CheckCapability(c) ==
    /\ pc[c] = "HasCapability"
    /\ IF CapabilityRequired(preamble[c])
          /\ ~HasCapability(preamble[c].Token, "hzn:serve")
       THEN /\ \E ok \in BOOLEAN :
                wrote' = [wrote EXCEPT ![c] =
                             Append(@, [status |-> "bad-token-capability", ok |-> ok])]
            /\ pc' = [pc EXCEPT ![c] = "return"]
            /\ UNCHANGED deferred
       ELSE /\ UNCHANGED wrote
            /\ IF Len(Services(c)) = 0
               THEN \* the registration loop has nothing to do
                    /\ deferred' = [deferred EXCEPT ![c] = Push(@, "RemoveService")]
                    /\ pc' = [pc EXCEPT ![c] = "WriteConfirmation"]
               ELSE /\ pc' = [pc EXCEPT ![c] = "AddService"]
                    /\ UNCHANGED deferred
    /\ UNCHANGED <<ctlVars, muVars, streamVars, drainVars, serving, conn, fr, fw, rd, preamble, vt, addLog,
                   removeLog, sess, active, streams>>

\* err = h.cc.AddService(...) for the next service of the Preamble;
\* after the last one: defer func() { RemoveService loop }()
AddService(c) ==
    /\ pc[c] = "AddService"
    /\ LET i == Len(addLog[c]) + 1
           n == Len(Services(c))
       IN \E ok \in BOOLEAN :
           /\ addLog' = [addLog EXCEPT ![c] =
                            Append(@, [id |-> Services(c)[i], ok |-> ok])]
           /\ pc' = [pc EXCEPT ![c] = AfterAddService(ok, i, n)]
           /\ deferred' = [deferred EXCEPT ![c] =
                              IF AfterAddService(ok, i, n) = "WriteConfirmation"
                              THEN Push(@, "RemoveService") ELSE @]
    /\ UNCHANGED <<ctlVars, muVars, streamVars, drainVars, serving, conn, fr, fw, rd, preamble, vt, wrote,
                   removeLog, sess, active, streams>>

\* _, err = fw.WriteMarshal(1, &wc) with wc.Status = "connected"; fw.Recycle()
WriteConfirmation(c) ==
    /\ pc[c] = "WriteConfirmation"
    /\ \E ok \in BOOLEAN :
        /\ wrote' = [wrote EXCEPT ![c] =
                        Append(@, [status |-> "connected", ok |-> ok])]
        /\ pc' = [pc EXCEPT ![c] = AfterConfirmation(ok)]
        \* the writer was recycled when it was made: this is its second Recycle
        /\ fw' = [fw EXCEPT ![c] = IF ok THEN "recycled twice" ELSE @]
    /\ UNCHANGED <<ctlVars, muVars, streamVars, drainVars, serving, conn, deferred, fr, rd, preamble, vt, addLog,
                   removeLog, sess, active, streams>>

\* sess, err := yamux.Server(bc, h.cfg); defer sess.Close()
YamuxServer(c) ==
    /\ pc[c] = "yamux.Server"
    /\ \E ok \in BOOLEAN :
        IF ok
        THEN /\ sess' = [sess EXCEPT ![c] = "open"]
             /\ deferred' = [deferred EXCEPT ![c] = Push(@, "sess.Close")]
             /\ pc' = [pc EXCEPT ![c] = "Install"]
        ELSE /\ pc' = [pc EXCEPT ![c] = "return"]
             /\ UNCHANGED <<sess, deferred>>
    /\ UNCHANGED <<ctlVars, muVars, streamVars, drainVars, serving, conn, fr, fw, rd, preamble, vt, wrote, addLog,
                   removeLog, active, streams>>

\* h.mu.Lock(); h.active[key] = sess for every service; h.mu.Unlock();
\* defer func() { delete loop }()
Install(c) ==
    /\ pc[c] = "Install"
    /\ active' = Installed(active, c, Services(c))
    /\ deferred' = [deferred EXCEPT ![c] = Push(@, "delete")]
    /\ pc' = [pc EXCEPT ![c] = "AcceptStream"]
    /\ UNCHANGED <<ctlVars, muVars, streamVars, drainVars, serving, conn, fr, fw, rd, preamble, vt, wrote, addLog,
                   removeLog, sess, streams>>

\* (mutant) the handler is called without go: the loop waits for it
AcceptBlocked_Inline(hs) == \E i \in 1..Len(hs) : hs[i] = "running"

\* go h.handleAgentStream(...): the accept loop does not wait for a handler
AcceptBlocked(hs) == FALSE

\* (mutant) the reader of a stream whose writer cannot be made is not released
StreamDefers_LeakReader(out) ==
    IF out = "dispatched" THEN <<"stream.fr.Recycle", "stream.fw.Recycle">> ELSE <<>>

\* defer fr.Recycle() after the stream's reader is made, defer fw.Recycle()
\* after its writer is made
StreamDefers(out) ==
    CASE out = "frErr" -> <<>>
      [] out = "fwErr" -> <<"stream.fr.Recycle">>
      [] OTHER -> <<"stream.fr.Recycle", "stream.fw.Recycle">>

\* (mutant) a stream whose reader or writer cannot be made ends the loop
AcceptStream_ReturnOnErr(c) ==
    /\ pc[c] = "AcceptStream"
    /\ Len(streams[c]) < peerStreams[c]
    /\ ~AcceptBlocked(handlers[c])
    /\ \E out \in {"frErr", "fwErr", "dispatched"} :
        /\ streams' = [streams EXCEPT ![c] = Append(@, out)]
        /\ sfr' = [sfr EXCEPT ![c] = Append(@, IF out = "frErr" THEN "none" ELSE "live")]
        /\ sfw' = [sfw EXCEPT ![c] = Append(@, IF out = "dispatched" THEN "live" ELSE "none")]
        /\ handlers' = [handlers EXCEPT ![c] =
                            Append(@, IF out = "dispatched" THEN "running" ELSE "none")]
        /\ deferred' = [deferred EXCEPT ![c] = @ \o StreamDefers(out)]
        /\ pc' = [pc EXCEPT ![c] = IF out = "dispatched" THEN "AcceptStream" ELSE "return"]
    /\ UNCHANGED <<ctlVars, muVars, drainVars, serving, conn, fr, fw, rd, preamble, vt, wrote, addLog,
                   removeLog, sess, active>>

\* stream, err := sess.AcceptStream() succeeds: frame reader and writer are
\* made for the stream (each with its deferred Recycle) and the stream is
\* handed to go h.handleAgentStream; a failing constructor skips the stream
AcceptStream(c) ==
    /\ pc[c] = "AcceptStream"
    /\ Len(streams[c]) < peerStreams[c]
    /\ ~AcceptBlocked(handlers[c])
    /\ \E out \in {"frErr", "fwErr", "dispatched"} :
        /\ streams' = [streams EXCEPT ![c] = Append(@, out)]
        /\ sfr' = [sfr EXCEPT ![c] = Append(@, IF out = "frErr" THEN "none" ELSE "live")]
        /\ sfw' = [sfw EXCEPT ![c] = Append(@, IF out = "dispatched" THEN "live" ELSE "none")]
        /\ handlers' = [handlers EXCEPT ![c] =
                            Append(@, IF out = "dispatched" THEN "running" ELSE "none")]
        /\ deferred' = [deferred EXCEPT ![c] = @ \o StreamDefers(out)]
    /\ UNCHANGED <<ctlVars, muVars, drainVars, serving, pc, conn, fr, fw, rd, preamble, vt, wrote, addLog,
                   removeLog, sess, active>>

\* sess.AcceptStream() returns io.EOF or another error: return
AcceptStreamError(c) ==
    /\ pc[c] = "AcceptStream"
    /\ ~AcceptBlocked(handlers[c])
    /\ pc' = [pc EXCEPT ![c] = "return"]
    /\ UNCHANGED <<ctlVars, muVars, streamVars, drainVars, serving, conn, deferred, fr, fw, rd, preamble, vt, wrote,
                   addLog, removeLog, sess, active, streams>>

\* ------------------------------------- the defers of handleConn, last first
\* the stream whose Recycle was deferred last and has not run yet
LastLive(s) ==
    CHOOSE i \in 1..Len(s) : s[i] = "live" /\ \A j \in (i + 1)..Len(s) : s[j] # "live"

\* defer fr.Recycle() / defer fw.Recycle() of an accepted stream
DeferStreamRecycle(c) ==
    /\ pc[c] = "return"
    /\ Top(deferred[c]) \in {"stream.fr.Recycle", "stream.fw.Recycle"}
    /\ IF Top(deferred[c]) = "stream.fw.Recycle"
       THEN /\ sfw' = [sfw EXCEPT ![c] = [@ EXCEPT ![LastLive(@)] = "recycled"]]
            /\ UNCHANGED sfr
       ELSE /\ sfr' = [sfr EXCEPT ![c] = [@ EXCEPT ![LastLive(@)] = "recycled"]]
            /\ UNCHANGED sfw
    /\ deferred' = [deferred EXCEPT ![c] = Pop(@)]
    /\ UNCHANGED <<ctlVars, muVars, handlers, drainVars, serving, pc, conn, fr, fw, rd, preamble, vt, wrote, addLog,
                   removeLog, sess, active, streams>>

\* defer func() { h.mu.Lock(); delete(h.active, key) for every service }()
DeferDelete(c) ==
    /\ pc[c] = "return"
    /\ Top(deferred[c]) = "delete"
    /\ active' = Deleted(active, c, Services(c))
    /\ deferred' = [deferred EXCEPT ![c] = Pop(@)]
    /\ UNCHANGED <<ctlVars, muVars, streamVars, drainVars, serving, pc, conn, fr, fw, rd, preamble, vt, wrote, addLog,
                   removeLog, sess, streams>>

\* defer sess.Close()
DeferSessClose(c) ==
    /\ pc[c] = "return"
    /\ Top(deferred[c]) = "sess.Close"
    /\ sess' = [sess EXCEPT ![c] = "closed"]
    /\ deferred' = [deferred EXCEPT ![c] = Pop(@)]
    /\ UNCHANGED <<ctlVars, muVars, streamVars, drainVars, serving, pc, conn, fr, fw, rd, preamble, vt, wrote, addLog,
                   removeLog, active, streams>>

\* defer func() { for _, serv := range preamble.Services { RemoveService } }()
DeferRemoveService(c) ==
    /\ pc[c] = "return"
    /\ Top(deferred[c]) = "RemoveService"
    /\ LET i == Len(removeLog[c]) + 1
           n == Len(Services(c))
       IN IF n = 0
          THEN /\ deferred' = [deferred EXCEPT ![c] = Pop(@)]
               /\ UNCHANGED removeLog
          ELSE \E ok \in BOOLEAN :
               /\ removeLog' = [removeLog EXCEPT ![c] =
                                   Append(@, [id |-> Services(c)[i], ok |-> ok])]
               /\ deferred' = [deferred EXCEPT ![c] =
                                  IF RemoveLoopDone(ok, i, n) THEN Pop(@) ELSE @]
    /\ UNCHANGED <<ctlVars, muVars, streamVars, drainVars, serving, pc, conn, fr, fw, rd, preamble, vt, wrote, addLog,
                   sess, active, streams>>

\* defer fr.Recycle()
DeferFrRecycle(c) ==
    /\ pc[c] = "return"
    /\ Top(deferred[c]) = "fr.Recycle"
    /\ fr' = [fr EXCEPT ![c] = "recycled"]
    /\ deferred' = [deferred EXCEPT ![c] = Pop(@)]
    /\ UNCHANGED <<ctlVars, muVars, streamVars, drainVars, serving, pc, conn, fw, rd, preamble, vt, wrote, addLog,
                   removeLog, sess, active, streams>>

\* defer conn.Close(): the first defer, so the last to run
DeferConnClose(c) ==
    /\ pc[c] = "return"
    /\ Top(deferred[c]) = "conn.Close"
    /\ conn' = [conn EXCEPT ![c] = "closed"]
    /\ deferred' = [deferred EXCEPT ![c] = Pop(@)]
    \* handleConn is over; under handleHZN its own defer is still to run
    /\ pc' = [pc EXCEPT ![c] = IF Pop(deferred[c]) = <<>> THEN "done" ELSE "return"]
    /\ UNCHANGED <<ctlVars, muVars, streamVars, drainVars, serving, fr, fw, rd, preamble, vt, wrote, addLog,
                   removeLog, sess, active, streams>>

\* ------------------------------------------------- Hub.handleAgentStream
\* a handler started by go h.handleAgentStream(ctx, vt, stream, wctx) returns
HandlerFinish(c) ==
    /\ \E i \in 1..Len(handlers[c]) :
        /\ handlers[c][i] = "running"
        /\ handlers' = [handlers EXCEPT ![c] = [@ EXCEPT ![i] = "finished"]]
    /\ UNCHANGED <<ctlVars, muVars, sfr, sfw, drainVars, serving, pc, conn, deferred, fr, fw, rd,
                   preamble, vt, wrote, addLog, removeLog, sess, active, streams>>

\* --------------------------------------- Hub.handleHZN, Hub.WaitToDrain
\* hub.wg.Add(1); defer hub.wg.Done(); hub.handleConn(ctx, tlsConn)
HandleHZN(c) ==
    /\ pc[c] = "idle"
    /\ \A b \in HznConns : b < c => pc[b] # "idle"
    /\ wg' = wg + 1
    /\ pc' = [pc EXCEPT ![c] = "NewFramingReader"]
    /\ conn' = [conn EXCEPT ![c] = "open"]
    /\ deferred' = [deferred EXCEPT ![c] = <<"wg.Done", "conn.Close">>]
    /\ UNCHANGED <<ctlVars, muVars, streamVars, peerStreams, drain, serving, fr, fw, rd, preamble,
                   vt, wrote, addLog, removeLog, sess, active, streams>>

\* defer hub.wg.Done() of handleHZN
DeferWgDone(c) ==
    /\ pc[c] = "return"
    /\ Top(deferred[c]) = "wg.Done"
    /\ wg' = wg - 1
    /\ deferred' = [deferred EXCEPT ![c] = Pop(@)]
    /\ pc' = [pc EXCEPT ![c] = "done"]
    /\ UNCHANGED <<ctlVars, muVars, streamVars, peerStreams, drain, serving, conn, fr, fw, rd,
                   preamble, vt, wrote, addLog, removeLog, sess, active, streams>>

\* WaitToDrain is called: hub.wg.Wait()
WaitToDrainCall ==
    /\ drain = "idle"
    /\ drain' = "waiting"
    /\ UNCHANGED <<ctlVars, muVars, streamVars, peerStreams, wg, serving, pc, conn, deferred, fr,
                   fw, rd, preamble, vt, wrote, addLog, removeLog, sess, active,
                   streams>>

\* hub.wg.Wait() returns when the counter is zero; WaitToDrain returns nil
WaitToDrainReturn ==
    /\ drain = "waiting"
    /\ wg = 0
    /\ drain' = "returned"
    /\ UNCHANGED <<ctlVars, muVars, streamVars, peerStreams, wg, serving, pc, conn, deferred, fr,
                   fw, rd, preamble, vt, wrote, addLog, removeLog, sess, active,
                   streams>>

handleConn(c) ==
    \/ NewFramingReader(c)
    \/ ReadMarshal(c)
    \/ NewFramingWriter(c)
    \/ CheckToken(c)
    \/ CheckCapability(c)
    \/ AddService(c)
    \/ WriteConfirmation(c)
    \/ YamuxServer(c)
    \/ Install(c)
    \/ AcceptStream(c)
    \/ AcceptStreamError(c)
    \/ DeferStreamRecycle(c)
    \/ DeferDelete(c)
    \/ DeferSessClose(c)
    \/ DeferRemoveService(c)
    \/ DeferFrRecycle(c)
    \/ DeferConnClose(c)

Next ==
    \/ AcceptError
    \/ \E c \in Conns : AcceptConn(c)
    \/ \E c \in Conns : handleConn(c)
    \/ \E c \in Conns : HandlerFinish(c)

Spec == Init /\ [][Next]_vars

\* the hub behind the ingress of Run: connections come through handleHZN,
\* WaitToDrain is called once at any time
InitHzn ==
    /\ InitHub
    /\ peerStreams = [c \in Conns |-> MaxHznStreams]
    /\ InitInbound
    /\ InitPool
    /\ InitBroadcast
    /\ InitRun

NextHzn ==
    \/ \E c \in HznConns : HandleHZN(c)
    \/ \E c \in HznConns : handleConn(c)
    \/ \E c \in HznConns : DeferWgDone(c)
    \/ \E c \in HznConns : HandlerFinish(c)
    \/ WaitToDrainCall
    \/ WaitToDrainReturn

SpecHzn == InitHzn /\ [][NextHzn]_vars

\* Every goroutine of a connection handler that can take a step takes one
\* and every call it blocks in returns; a stream handler may stall for ever.
FairSpecHzn ==
    /\ SpecHzn
    /\ \A c \in HznConns : WF_vars(handleConn(c) \/ DeferWgDone(c))

\* ------------------------------------ Hub.mu, one step per statement
\* (mutant) the deferred loop leaves the key in the map
DeletedKey_Keep(act, k) == act

\* delete(h.active, serv.ServiceId.SpecString())
DeletedKey(act, k) == [act EXCEPT ![k] = NoSession]

\* h.active[serv.ServiceId.SpecString()] = sess
InsertedKey(act, c, k) == [act EXCEPT ![k] = c]

\* handleConn from its first statement to yamux.Server, every call
\* succeeding: the Preamble is read, the token and the capability pass, all
\* services are registered, "connected" is written, the session is made
HandshakeOK(c) ==
    /\ serving
    /\ pc[c] = "idle"
    /\ \A b \in Conns : b < c => pc[b] # "idle"
    /\ \E p \in Preambles :
        /\ ValidateToken(p.Token)
        /\ CapabilityRequired(p) => HasCapability(p.Token, "hzn:serve")
        /\ preamble' = [preamble EXCEPT ![c] = p]
        /\ addLog' = [addLog EXCEPT ![c] =
                         [i \in 1..Len(p.Services) |-> [id |-> p.Services[i], ok |-> TRUE]]]
    /\ conn' = [conn EXCEPT ![c] = "open"]
    /\ fr' = [fr EXCEPT ![c] = "live"]
    /\ fw' = [fw EXCEPT ![c] = "recycled twice"]
    /\ rd' = [rd EXCEPT ![c] = [done |-> TRUE, err |-> FALSE, tag |-> 1]]
    /\ vt' = [vt EXCEPT ![c] = "valid"]
    /\ wrote' = [wrote EXCEPT ![c] = <<[status |-> "connected", ok |-> TRUE]>>]
    /\ sess' = [sess EXCEPT ![c] = "open"]
    /\ deferred' = [deferred EXCEPT ![c] =
                       <<"conn.Close", "fr.Recycle", "RemoveService", "sess.Close">>]
    /\ pc' = [pc EXCEPT ![c] = "Install"]
    /\ UNCHANGED <<ctlVars, muVars, streamVars, drainVars, serving, removeLog, active,
                   streams>>

\* h.mu.Lock() before the insert loop
MuLockInstall(c) ==
    /\ pc[c] = "Install"
    /\ hmu = NoSession
    /\ hmu' = c
    /\ pc' = [pc EXCEPT ![c] = "Install.loop"]
    /\ UNCHANGED <<ctlVars, midx, streamVars, drainVars, serving, conn, deferred, fr, fw,
                   rd, preamble, vt, wrote, addLog, removeLog, sess, active, streams>>

\* one turn of: for _, serv := range preamble.Services { h.active[...] = sess }
InsertKey(c) ==
    /\ pc[c] = "Install.loop"
    /\ midx[c] < Len(Services(c))
    /\ active' = InsertedKey(active, c, Services(c)[midx[c] + 1])
    /\ midx' = [midx EXCEPT ![c] = @ + 1]
    /\ UNCHANGED <<ctlVars, hmu, streamVars, drainVars, serving, pc, conn, deferred, fr,
                   fw, rd, preamble, vt, wrote, addLog, removeLog, sess, streams>>

\* h.mu.Unlock() after the insert loop; defer func() { delete loop }()
MuUnlockInstall(c) ==
    /\ pc[c] = "Install.loop"
    /\ midx[c] = Len(Services(c))
    /\ hmu' = NoSession
    /\ midx' = [midx EXCEPT ![c] = 0]
    /\ deferred' = [deferred EXCEPT ![c] = Push(@, "delete")]
    /\ pc' = [pc EXCEPT ![c] = "AcceptStream"]
    /\ UNCHANGED <<ctlVars, streamVars, drainVars, serving, conn, fr, fw, rd, preamble,
                   vt, wrote, addLog, removeLog, sess, active, streams>>

\* the deferred delete: h.mu.Lock(); defer h.mu.Unlock()
MuLockDelete(c) ==
    /\ pc[c] = "return"
    /\ Top(deferred[c]) = "delete"
    /\ hmu = NoSession
    /\ hmu' = c
    /\ UNCHANGED <<ctlVars, midx, streamVars, drainVars, serving, pc, conn, deferred, fr,
                   fw, rd, preamble, vt, wrote, addLog, removeLog, sess, active,
                   streams>>

\* one turn of: for _, serv := range preamble.Services { delete(h.active, ...) }
DeleteKey(c) ==
    /\ pc[c] = "return"
    /\ Top(deferred[c]) = "delete"
    /\ hmu = c
    /\ midx[c] < Len(Services(c))
    /\ active' = DeletedKey(active, Services(c)[midx[c] + 1])
    /\ midx' = [midx EXCEPT ![c] = @ + 1]
    /\ UNCHANGED <<ctlVars, hmu, streamVars, drainVars, serving, pc, conn, deferred, fr,
                   fw, rd, preamble, vt, wrote, addLog, removeLog, sess, streams>>

\* the deferred h.mu.Unlock(): the deferred delete is over
MuUnlockDelete(c) ==
    /\ pc[c] = "return"
    /\ Top(deferred[c]) = "delete"
    /\ hmu = c
    /\ midx[c] = Len(Services(c))
    /\ hmu' = NoSession
    /\ midx' = [midx EXCEPT ![c] = 0]
    /\ deferred' = [deferred EXCEPT ![c] = Pop(@)]
    /\ UNCHANGED <<ctlVars, streamVars, drainVars, serving, pc, conn, fr, fw, rd,
                   preamble, vt, wrote, addLog, removeLog, sess, active, streams>>

\* sessions that became Active, Hub.mu taken and released statement by
\* statement; the peers open no stream
InitMu ==
    /\ InitHub
    /\ peerStreams = [c \in Conns |-> 0]
    /\ InitInbound
    /\ InitPool
    /\ InitBroadcast
    /\ InitRun

NextMu ==
    \/ \E c \in Conns : HandshakeOK(c)
    \/ \E c \in Conns : MuLockInstall(c)
    \/ \E c \in Conns : InsertKey(c)
    \/ \E c \in Conns : MuUnlockInstall(c)
    \/ \E c \in Conns : AcceptStreamError(c)
    \/ \E c \in Conns : MuLockDelete(c)
    \/ \E c \in Conns : DeleteKey(c)
    \/ \E c \in Conns : MuUnlockDelete(c)
    \/ \E c \in Conns : DeferSessClose(c)
    \/ \E c \in Conns : DeferRemoveService(c)
    \/ \E c \in Conns : DeferFrRecycle(c)
    \/ \E c \in Conns : DeferConnClose(c)

SpecMu == InitMu /\ [][NextMu]_vars

\* ------------------------------------------------- Hub.Run, Hub.Serve
\* (mutant) every *net.OpError is taken for the end of the listener
RunResult_AnyOpError(err) ==
    IF err.type = "*net.OpError" THEN NilErr ELSE err

\* if err != nil { if no, ok := err.(*net.OpError); ok { if no.Err.Error()
\* == "use of closed network connection" { return nil } }; return err };
\* return nil
RunResult(err) ==
    IF err # NilErr
    THEN IF err.type = "*net.OpError" /\ err.Err = ClosedConn
         THEN NilErr
         ELSE err
    ELSE NilErr

\* Run is called: err := hub.cc.RunIngress(ctx, li, npn) is running
RunCall ==
    /\ rpc = "idle"
    /\ rpc' = "RunIngress"
    /\ UNCHANGED <<hubVars, inboundVars, poolVars, bcastVars, ingressErr, runRet>>

\* RunIngress returns err and Run returns
RunReturn(err) ==
    /\ rpc = "RunIngress"
    /\ ingressErr' = err
    /\ runRet' = RunResult(err)
    /\ rpc' = "returned"
    /\ UNCHANGED <<hubVars, inboundVars, poolVars, bcastVars>>

\* Serve with the handlers it spawned (Hub.mu statement by statement), its
\* Accept failing at any time, and one call of Run
NextServe ==
    \/ AcceptError
    \/ NextMu
    \/ RunCall
    \/ \E err \in IngressErrs : RunReturn(err)

SpecServe == InitMu /\ [][NextServe]_vars

\* ------------------------------------------------------- InboundServer

\* (mutant) the role of the token is not looked at
checkValidToken_AnyRole(md, auth) ==
    IF ~md THEN ErrBadControlToken
    ELSE IF Len(auth) < 1 THEN ErrBadControlToken
    ELSE IF auth[1] = "invalid" THEN "CheckTokenED25519"
    ELSE "nil"

\* (mutant) the token is the last value of the authorization entry
checkValidToken_LastValue(md, auth) ==
    IF ~md THEN ErrBadControlToken
    ELSE IF Len(auth) < 1 THEN ErrBadControlToken
    ELSE IF auth[Len(auth)] = "invalid" THEN "CheckTokenED25519"
    ELSE IF auth[Len(auth)] # "control" THEN "role was: " \o ErrBadControlToken
    ELSE "nil"

\* md, ok := metadata.FromIncomingContext(ctx); auth := md["authorization"];
\* token.CheckTokenED25519(auth[0], ...); token.Body.Role != pb.CONTROL
checkValidToken(md, auth) ==
    IF ~md THEN ErrBadControlToken
    ELSE IF Len(auth) < 1 THEN ErrBadControlToken
    ELSE IF auth[1] = "invalid" THEN "CheckTokenED25519"
    ELSE IF auth[1] # "control" THEN "role was: " \o ErrBadControlToken
    ELSE "nil"

\* a call arrives; calls are numbered in the order they arrive
InboundCall(k) ==
    /\ ipc[k] = "idle"
    /\ \A j \in 1..(k - 1) : ipc[j] # "idle"
    /\ \E r \in Requests : ireq' = [ireq EXCEPT ![k] = r]
    /\ ipc' = [ipc EXCEPT ![k] = "checkValidToken"]
    /\ UNCHANGED <<hubVars, runVars, bcastVars, poolVars, ierr, ireply, applied>>

\* err := i.checkValidToken(ctx); if err != nil { return nil, err }
InboundCheck(k) ==
    /\ ipc[k] = "checkValidToken"
    /\ LET err == checkValidToken(ireq[k].md, ireq[k].auth) IN
          /\ ierr' = [ierr EXCEPT ![k] = err]
          /\ IF err # "nil"
             THEN /\ ireply' = [ireply EXCEPT ![k] = [noop |-> FALSE, err |-> err]]
                  /\ ipc' = [ipc EXCEPT ![k] = "done"]
             ELSE /\ ipc' = [ipc EXCEPT ![k] = "update"]
                  /\ UNCHANGED ireply
    /\ UNCHANGED <<hubVars, runVars, bcastVars, poolVars, ireq, applied>>

\* err = i.Client.AddRecentAccountServices(services); return &pb.Noop{}, err
AddServices(k) ==
    /\ ipc[k] = "update"
    /\ ireq[k].op = "AddServices"
    /\ \E ok \in BOOLEAN :
          /\ applied' = Append(applied, [call |-> k, op |-> "AddRecentAccountServices",
                                          ok |-> ok])
          /\ ireply' = [ireply EXCEPT ![k] =
                           [noop |-> TRUE, err |-> IF ok THEN "nil" ELSE "update failed"]]
    /\ ipc' = [ipc EXCEPT ![k] = "done"]
    /\ UNCHANGED <<hubVars, runVars, bcastVars, poolVars, ireq, ierr>>

\* (mutant) the error of AddRecentLabelLinks is returned
AddLabeLink_ReturnsErr(k) ==
    /\ ipc[k] = "update"
    /\ ireq[k].op = "AddLabeLink"
    /\ \E ok \in BOOLEAN :
          /\ applied' = Append(applied, [call |-> k, op |-> "AddRecentLabelLinks",
                                          ok |-> ok])
          /\ ireply' = [ireply EXCEPT ![k] =
                           [noop |-> TRUE, err |-> IF ok THEN "nil" ELSE "update failed"]]
    /\ ipc' = [ipc EXCEPT ![k] = "done"]
    /\ UNCHANGED <<hubVars, runVars, bcastVars, poolVars, ireq, ierr>>

\* err = i.Client.AddRecentLabelLinks(labels); return &pb.Noop{}, nil
AddLabeLink(k) ==
    /\ ipc[k] = "update"
    /\ ireq[k].op = "AddLabeLink"
    /\ \E ok \in BOOLEAN :
          applied' = Append(applied, [call |-> k, op |-> "AddRecentLabelLinks",
                                       ok |-> ok])
    /\ ireply' = [ireply EXCEPT ![k] = [noop |-> TRUE, err |-> "nil"]]
    /\ ipc' = [ipc EXCEPT ![k] = "done"]
    /\ UNCHANGED <<hubVars, runVars, bcastVars, poolVars, ireq, ierr>>

NextInbound ==
    \/ \E k \in InboundCalls : InboundCall(k)
    \/ \E k \in InboundCalls : InboundCheck(k)
    \/ \E k \in InboundCalls : AddServices(k)
    \/ \E k \in InboundCalls : AddLabeLink(k)

SpecInbound == Init /\ [][NextInbound]_vars

\* ------------------------------------------------------------ GRPCDial

\* (mutant) the second lookup, under the write lock, is left out
RecheckHit_Never(conns, t) == FALSE

\* cc, ok = g.grpcConns[target]; if ok { return ... } under g.mu.Lock()
RecheckHit(conns, t) == conns[t] # NoConn

\* (mutant) the new connection is returned without being stored
AfterDial_NoInsert(conns, t, ok, id) == conns

\* (mutant) the connection value is stored before the error is looked at
AfterDial_CacheFailure(conns, t, ok, id) == [conns EXCEPT ![t] = id]

\* cc, err := grpc.Dial(...); if err != nil { return nil, err };
\* g.grpcConns[target] = cc
AfterDial(conns, t, ok, id) == IF ok THEN [conns EXCEPT ![t] = id] ELSE conns

\* a caller enters Dial(target)
Dial(k) ==
    /\ dpc[k] \in {"idle", "done"}
    /\ ncalls[k] < MaxDialCalls
    /\ ncalls' = [ncalls EXCEPT ![k] = @ + 1]
    /\ \E t \in Targets : dtarget' = [dtarget EXCEPT ![k] = t]
    /\ dpc' = [dpc EXCEPT ![k] = "RLock"]
    /\ UNCHANGED <<hubVars, runVars, bcastVars, inboundVars, dhit, dres, mu, grpcConns, dials>>

\* g.mu.RLock()
RLock(k) ==
    /\ dpc[k] = "RLock"
    /\ mu.writer = NoCaller
    /\ mu' = [mu EXCEPT !.readers = @ \cup {k}]
    /\ dpc' = [dpc EXCEPT ![k] = "lookup"]
    /\ UNCHANGED <<hubVars, runVars, bcastVars, inboundVars, dtarget, dhit, dres, ncalls, grpcConns, dials>>

\* cc, ok := g.grpcConns[target]; g.mu.RUnlock()
Lookup(k) ==
    /\ dpc[k] = "lookup"
    /\ dhit' = [dhit EXCEPT ![k] = grpcConns[dtarget[k]]]
    /\ mu' = [mu EXCEPT !.readers = @ \ {k}]
    /\ dpc' = [dpc EXCEPT ![k] = "looked"]
    /\ UNCHANGED <<hubVars, runVars, bcastVars, inboundVars, dtarget, dres, ncalls, grpcConns, dials>>

\* if ok { return pb.NewHubServicesClient(cc), nil }
ReturnCached(k) ==
    /\ dpc[k] = "looked"
    /\ dhit[k] # NoConn
    /\ dres' = [dres EXCEPT ![k] = [cc |-> dhit[k], err |-> FALSE]]
    /\ dpc' = [dpc EXCEPT ![k] = "done"]
    /\ UNCHANGED <<hubVars, runVars, bcastVars, inboundVars, dtarget, dhit, ncalls, mu, grpcConns, dials>>

\* g.mu.Lock(); defer g.mu.Unlock()
Lock(k) ==
    /\ dpc[k] = "looked"
    /\ dhit[k] = NoConn
    /\ mu.writer = NoCaller
    /\ mu.readers = {}
    /\ mu' = [mu EXCEPT !.writer = k]
    /\ dpc' = [dpc EXCEPT ![k] = "recheck"]
    /\ UNCHANGED <<hubVars, runVars, bcastVars, inboundVars, dtarget, dhit, dres, ncalls, grpcConns, dials>>

\* There is a race here so we have to check again.
Recheck(k) ==
    /\ dpc[k] = "recheck"
    /\ IF RecheckHit(grpcConns, dtarget[k])
       THEN /\ dres' = [dres EXCEPT ![k] = [cc |-> grpcConns[dtarget[k]], err |-> FALSE]]
            /\ mu' = [mu EXCEPT !.writer = NoCaller]
            /\ dpc' = [dpc EXCEPT ![k] = "done"]
       ELSE /\ dpc' = [dpc EXCEPT ![k] = "grpc.Dial"]
            /\ UNCHANGED <<dres, mu>>
    /\ UNCHANGED <<hubVars, runVars, bcastVars, inboundVars, dtarget, dhit, ncalls, grpcConns, dials>>

\* cc, err := grpc.Dial(target, opts...); the deferred Unlock runs at return
GrpcDial(k) ==
    /\ dpc[k] = "grpc.Dial"
    /\ \E ok \in BOOLEAN :
          LET id == Len(dials) + 1 IN
          /\ dials' = Append(dials, [target |-> dtarget[k], ok |-> ok, by |-> k])
          /\ grpcConns' = AfterDial(grpcConns, dtarget[k], ok, id)
          /\ dres' = [dres EXCEPT ![k] = [cc |-> IF ok THEN id ELSE NoConn, err |-> ~ok]]
    /\ mu' = [mu EXCEPT !.writer = NoCaller]
    /\ dpc' = [dpc EXCEPT ![k] = "done"]
    /\ UNCHANGED <<hubVars, runVars, bcastVars, inboundVars, dtarget, dhit, ncalls>>

NextPool ==
    \/ \E k \in Callers : Dial(k)
    \/ \E k \in Callers : RLock(k)
    \/ \E k \in Callers : Lookup(k)
    \/ \E k \in Callers : ReturnCached(k)
    \/ \E k \in Callers : Lock(k)
    \/ \E k \in Callers : Recheck(k)
    \/ \E k \in Callers : GrpcDial(k)

SpecPool == Init /\ [][NextPool]_vars

\* --------------------------------------------------------- Broadcaster

\* targets := b.catalog.Targets()
FetchTargets(cat, prev) == cat

\* (mutant) the loop is left at the first failure
LoopDone_StopOnErr(errs, i, n) == errs # <<>> \/ i >= n

\* for _, tgt := range targets: over after the n-th target, errors or not
LoopDone(errs, i, n) == i >= n

\* (mutant) the error of client.AddServices is dropped
Failed_DialOnly(out) == out = "dial error"

\* err != nil after b.conn(tgt), or after client.AddServices(ctx, as)
Failed(out) == out # "ok"

\* the HubCatalog lists other hubs
CatalogChange ==
    /\ \E l \in Catalogs : l # catalog /\ catalog' = l
    /\ UNCHANGED <<hubVars, runVars, inboundVars, poolVars, bpc, btargets, attempts,
                   topError, bret, bcalls>>

\* var topError error; targets := b.catalog.Targets()
AdvertiseServices ==
    /\ bpc \in {"idle", "returned"}
    /\ bcalls < MaxAdvertise
    /\ bcalls' = bcalls + 1
    /\ btargets' = FetchTargets(catalog, btargets)
    /\ attempts' = <<>>
    /\ topError' = <<>>
    /\ bret' = <<>>
    /\ bpc' = "loop"
    /\ UNCHANGED <<hubVars, runVars, inboundVars, poolVars, catalog>>

\* one turn of the loop: client, err := b.conn(tgt), then
\* client.AddServices(ctx, as); either error is appended to topError
AdvertiseTarget ==
    /\ bpc = "loop"
    /\ ~LoopDone(topError, Len(attempts), Len(btargets))
    /\ LET tgt == btargets[Len(attempts) + 1] IN
       \E out \in {"dial error", "call error", "ok"} :
          /\ attempts' = Append(attempts, [target |-> tgt, out |-> out])
          /\ topError' = IF Failed(out)
                         THEN Append(topError, [target |-> tgt, err |-> out])
                         ELSE topError
    /\ UNCHANGED <<hubVars, runVars, inboundVars, poolVars, catalog, bpc, btargets, bret,
                   bcalls>>

\* return topError
AdvertiseReturn ==
    /\ bpc = "loop"
    /\ LoopDone(topError, Len(attempts), Len(btargets))
    /\ bret' = topError
    /\ bpc' = "returned"
    /\ UNCHANGED <<hubVars, runVars, inboundVars, poolVars, catalog, btargets, attempts,
                   topError, bcalls>>

NextBroadcast ==
    \/ CatalogChange
    \/ AdvertiseServices
    \/ AdvertiseTarget
    \/ AdvertiseReturn

SpecBroadcast == Init /\ [][NextBroadcast]_vars

TypeOK ==
    /\ rpc \in {"idle", "RunIngress", "returned"}
    /\ ingressErr \in IngressErrs
    /\ runRet \in IngressErrs
    /\ hmu \in Conns \cup {NoSession}
    /\ midx \in [Conns -> 0..MaxServices]
    /\ catalog \in Catalogs
    /\ btargets \in Catalogs
    /\ bpc \in {"idle", "loop", "returned"}
    /\ Len(attempts) <= Len(btargets)
    /\ Len(topError) <= Len(attempts)
    /\ bcalls \in 0..MaxAdvertise
    /\ ipc \in [InboundCalls -> {"idle", "checkValidToken", "update", "done"}]
    /\ ireq \in [InboundCalls -> Requests]
    /\ ireply \in [InboundCalls -> [noop : BOOLEAN,
                                     err : {"nil", ErrBadControlToken, "CheckTokenED25519",
                                            "role was: " \o ErrBadControlToken,
                                            "update failed"}]]
    /\ Len(applied) <= NCalls
    /\ dpc \in [Callers -> {"idle", "RLock", "lookup", "looked", "recheck",
                             "grpc.Dial", "done"}]
    /\ dtarget \in [Callers -> Targets]
    /\ ncalls \in [Callers -> 0..MaxDialCalls]
    /\ mu.writer \in Callers \cup {NoCaller}
    /\ mu.readers \subseteq Callers
    /\ mu.writer # NoCaller => mu.readers = {}
    /\ grpcConns \in [Targets -> 0..(NCallers * MaxDialCalls)]
    /\ Len(dials) <= NCallers * MaxDialCalls
    /\ serving \in BOOLEAN
    /\ pc \in [Conns -> {"idle", "NewFramingReader", "ReadMarshal",
                         "NewFramingWriter", "ValidateToken", "HasCapability",
                         "AddService", "WriteConfirmation", "yamux.Server",
                         "Install", "Install.loop", "AcceptStream", "return",
                         "done"}]
    /\ conn \in [Conns -> {"none", "open", "closed"}]
    /\ fr \in [Conns -> {"none", "live", "recycled"}]
    /\ fw \in [Conns -> {"none", "live", "recycled", "recycled twice"}]
    /\ preamble \in [Conns -> Preambles]
    /\ vt \in [Conns -> {"none", "invalid", "valid"}]
    /\ sess \in [Conns -> {"none", "open", "closed"}]
    /\ active \in [ServiceIds -> Conns \cup {NoSession}]
    /\ \A c \in Conns : Len(streams[c]) <= peerStreams[c]
    /\ \A c \in Conns : Len(sfr[c]) = Len(streams[c]) /\ Len(sfw[c]) = Len(streams[c])
    /\ \A c \in Conns : Len(handlers[c]) = Len(streams[c])
    /\ wg \in 0..NConn
    /\ drain \in {"idle", "waiting", "returned"}

\* ------------------------------------------------------------ vocabulary
Finished(c) == pc[c] = "done"
Returning(c) == pc[c] \in {"return", "done"}

\* the Preamble of c was decoded with tag 1
PreambleRead(c) == rd[c].done /\ ~rd[c].err /\ rd[c].tag = 1

\* c never became Active: no session, no stream, no entry of Hub.active,
\* no "connected" Confirmation
NeverActive(c) ==
    /\ sess[c] = "none"
    /\ streams[c] = <<>>
    /\ KeysOf(c) = {}
    /\ \A i \in 1..Len(wrote[c]) : wrote[c][i].status # "connected"

\* the handshake of c is over and its entries are installed; the deferred
\* delete of c has not run yet
Live(c) ==
    \/ pc[c] = "AcceptStream"
    \/ pc[c] = "return" /\ "delete" \in Range(deferred[c])

\* this step is taken by handleConn(c)
StepOf(c) == pc'[c] # pc[c] \/ deferred'[c] # deferred[c] \/ streams'[c] # streams[c]

IsPrefix(s, t) == Len(s) <= Len(t) /\ \A i \in 1..Len(s) : s[i] = t[i]

\* ---------------------------------------------------------------- claims

\* C1: a connection whose Preamble token fails validation gets exactly one
\* Confirmation, of status "bad-token", and returns: no AddService call, no
\* entry in Hub.active, no session, no stream, no "connected" Confirmation;
\* when the handler is done the connection is closed.
C1_BadTokenRejected ==
    \A c \in Conns :
        (PreambleRead(c) /\ preamble[c].Token = "invalid"
            /\ fw[c] # "none" /\ pc[c] # "ValidateToken")
        => /\ Statuses(c) = <<"bad-token">>
           /\ Returning(c)
           /\ addLog[c] = <<>>
           /\ NeverActive(c)
           /\ (Finished(c) => conn[c] = "closed")

C1_Witness ==
    \E c \in Conns :
        /\ PreambleRead(c) /\ preamble[c].Token = "invalid"
        /\ Finished(c)
        /\ Statuses(c) = <<"bad-token">>
        /\ Len(Services(c)) > 0

\* C2: a connection whose token validates but lacks hzn:serve and whose
\* Preamble advertises at least one service gets exactly one Confirmation, of
\* status "bad-token-capability", and returns without AddService, entry of
\* Hub.active, session or stream.
C2_BadCapabilityRejected ==
    \A c \in Conns :
        (PreambleRead(c) /\ preamble[c].Token = "agent" /\ Len(Services(c)) > 0
            /\ fw[c] # "none" /\ pc[c] \notin {"ValidateToken", "HasCapability"})
        => /\ Statuses(c) = <<"bad-token-capability">>
           /\ Returning(c)
           /\ addLog[c] = <<>>
           /\ NeverActive(c)
           /\ (Finished(c) => conn[c] = "closed")

C2_Witness ==
    \E c \in Conns :
        /\ PreambleRead(c) /\ preamble[c].Token = "agent"
        /\ Len(Services(c)) > 0
        /\ Finished(c)
        /\ Statuses(c) = <<"bad-token-capability">>

\* C3: a stream is accepted on a connection only after its token has been
\* validated and its "connected" Confirmation has been written; while the
\* handshake is running, and on every connection that was rejected or
\* aborted, no stream has been accepted.
C3_HandshakeBeforeStreams ==
    \A c \in Conns :
        /\ streams[c] # <<>> =>
              /\ vt[c] = "valid"
              /\ wrote[c] = <<[status |-> "connected", ok |-> TRUE]>>
              /\ sess[c] # "none"
        /\ pc[c] \in {"idle", "NewFramingReader", "ReadMarshal", "NewFramingWriter",
                      "ValidateToken", "HasCapability", "AddService",
                      "WriteConfirmation", "yamux.Server", "Install"}
              => streams[c] = <<>>
        /\ (Returning(c) /\ sess[c] = "none") => streams[c] = <<>>

C3_Witness ==
    \E c \in Conns :
        /\ "dispatched" \in Range(streams[c])
        /\ wrote[c] = <<[status |-> "connected", ok |-> TRUE]>>

\* C4: when the first frame cannot be decoded or its tag is not 1, the
\* handler returns at once: no Confirmation is written, the token is not
\* validated, no AddService or RemoveService call is made.
C4_ProtocolErrorSilent ==
    \A c \in Conns :
        (rd[c].done /\ (rd[c].err \/ rd[c].tag # 1))
        => /\ wrote[c] = <<>>
           /\ vt[c] = "none"
           /\ addLog[c] = <<>>
           /\ removeLog[c] = <<>>
           /\ fw[c] = "none"
           /\ NeverActive(c)
           /\ Returning(c)
           /\ (Finished(c) => conn[c] = "closed")

C4_Witness ==
    \E a, b \in Conns :
        /\ rd[a].done /\ rd[a].err /\ Finished(a)
        /\ rd[b].done /\ ~rd[b].err /\ rd[b].tag # 1 /\ Finished(b)

\* C5: AddService is called for the services of the Preamble one at a time
\* in Preamble order; the first error ends the registration: no later
\* AddService, no retry, no "connected" Confirmation, no entry of Hub.active,
\* no session, and the handler returns.
C5_RegistrationAbortsOnFirstError ==
    \A c \in Conns :
        /\ IsPrefix(Ids(addLog[c]), Services(c))
        /\ \A i \in 1..(Len(addLog[c]) - 1) : addLog[c][i].ok
        /\ (addLog[c] # <<>> /\ ~Last(addLog[c]).ok)
           => /\ Returning(c)
              /\ wrote[c] = <<>>
              /\ NeverActive(c)
              /\ (Finished(c) => conn[c] = "closed")

C5_Witness ==
    \E c \in Conns :
        /\ Len(Services(c)) = 2
        /\ Len(addLog[c]) = 1
        /\ ~addLog[c][1].ok
        /\ Finished(c)

\* C6: when the handler of a connection is done, every service whose
\* AddService succeeded has had a RemoveService attempt.
C6_EveryRegistrationDeregistered ==
    \A c \in Conns :
        Finished(c) =>
            \A i \in 1..Len(addLog[c]) :
                addLog[c][i].ok =>
                    \E j \in 1..Len(removeLog[c]) : removeLog[c][j].id = addLog[c][i].id

\* C7: on teardown of a session with N advertised services RemoveService is
\* attempted for all N, in Preamble order, whatever the earlier attempts
\* returned.
C7_DeregistersAllInOrder ==
    \A c \in Conns :
        /\ IsPrefix(Ids(removeLog[c]), Services(c))
        /\ (Finished(c) /\ sess[c] # "none") => Ids(removeLog[c]) = Services(c)

C7_Witness ==
    \E c \in Conns :
        /\ Finished(c) /\ sess[c] = "closed"
        /\ Len(removeLog[c]) = 2
        /\ ~removeLog[c][1].ok
        /\ removeLog[c][1].id # removeLog[c][2].id

\* the step in which c installs its session in Hub.active
InstallStep(c) == pc[c] = "Install" /\ pc'[c] = "AcceptStream"

Keys == {k \in ServiceIds : active[k] # NoSession}

\* C8 (as stated): the installation of a session with N advertised services
\* adds exactly N new entries to Hub.active, all pointing to that session,
\* and no entry points to the session once its handler is done.
C8_ExactlyNNewEntries ==
    /\ [][\A c \in Conns :
            InstallStep(c) =>
                /\ Cardinality(Keys') = Cardinality(Keys) + Len(Services(c))
                /\ \A k \in Keys' \ Keys : active'[k] = c]_vars
    /\ [](\A c \in Conns : Finished(c) => KeysOf(c) = {})

\* C8 (amended): right after the installation the entries of Hub.active that
\* point to the session are exactly the distinct service ids of its Preamble
\* (an id advertised twice gives one entry, an id already present is
\* overwritten), and no entry points to the session once its handler is done.
C8_OneEntryPerDistinctId ==
    /\ [][\A c \in Conns :
            InstallStep(c) =>
                /\ KeysOf(c)' = Range(Services(c))
                /\ Cardinality(KeysOf(c)') = Cardinality(Range(Services(c)))
                /\ \A k \in ServiceIds \ Range(Services(c)) : active'[k] = active[k]]_vars
    /\ [](\A c \in Conns : Finished(c) => KeysOf(c) = {})

C8_Witness ==
    \E c \in Conns :
        /\ Finished(c) /\ sess[c] = "closed"
        /\ Len(Services(c)) = 2
        /\ Cardinality(Range(Services(c))) = 2
        /\ KeysOf(c) = {}

\* C9: in every reachable state, each service id advertised by a connection
\* maps to that connection's session in Hub.active if and only if the
\* connection has completed the handshake and has not yet disconnected.
C9_InMapIffLive ==
    \A c \in Conns :
        \A k \in Range(Services(c)) :
            (active[k] = c) <=> Live(c)

\* C10: a step of the failure or teardown path of connection a neither
\* removes nor changes an entry of Hub.active that points to the session of
\* another connection b that is still in its accept loop, and leaves b in
\* its accept loop.
C10_TeardownIsolated ==
    [][\A a, b \in Conns :
          (a # b /\ StepOf(a) /\ Returning(a)' /\ pc[b] = "AcceptStream")
          => /\ pc'[b] = "AcceptStream"
             /\ \A k \in ServiceIds : active[k] = b => active'[k] = b]_vars

\* ------------------------------------------------- claims on the streams

\* the n-th stream of the peer of c is waiting to be accepted
Pending(c, n) == pc[c] = "AcceptStream" /\ Len(streams[c]) = n - 1

\* the connection of c went down before its n-th stream was accepted
DownBefore(c, n) == pc[c] # "AcceptStream" /\ Len(streams[c]) < n

\* C11 (as stated): each accepted stream is dispatched to a handler of its
\* own: every stream the accept loop has taken from the peer has a handler
\* started for it, whatever the handlers of earlier streams are doing.
C11_EveryStreamDispatched ==
    \A c \in HznConns : \A n \in 1..Len(streams[c]) :
        streams[c][n] = "dispatched" /\ handlers[c][n] # "none"

\* C11 (amended): while the connection stays up, every stream opened by the
\* peer is eventually accepted, even if the handlers of all earlier streams
\* are stalled; it is dispatched to a handler of its own unless its frame
\* reader or frame writer cannot be made, in which case it is skipped.
C11_EveryStreamAccepted ==
    /\ \A c \in HznConns : \A n \in 1..MaxHznStreams :
          Pending(c, n) ~> (Len(streams[c]) >= n \/ DownBefore(c, n))
    /\ [](\A c \in HznConns : \A i \in 1..Len(streams[c]) :
            (handlers[c][i] # "none") <=> (sfr[c][i] # "none" /\ sfw[c][i] # "none"))

C11_Witness ==
    \E c \in HznConns :
        /\ Len(streams[c]) = 2
        /\ handlers[c] = <<"running", "running">>

\* C12: once a connection is Active, the first AcceptStream error ends the
\* accept loop and the handler eventually finishes with its entries removed
\* from Hub.active, RemoveService attempted for each of its services, the
\* session and the connection closed; no stream is accepted after the error.
C12_AcceptErrorTearsDown ==
    /\ \A c \in HznConns :
          (pc[c] = "return" /\ sess[c] = "open") ~>
              /\ Finished(c)
              /\ KeysOf(c) = {}
              /\ Ids(removeLog[c]) = Services(c)
              /\ sess[c] = "closed"
              /\ conn[c] = "closed"
    /\ [][\A c \in HznConns : Returning(c) => streams'[c] = streams[c]]_vars

C12_Witness ==
    \E c \in HznConns :
        /\ Finished(c) /\ sess[c] = "closed" /\ conn[c] = "closed"
        /\ Len(Services(c)) = 2
        /\ Len(removeLog[c]) = 2
        /\ "dispatched" \in Range(streams[c])

\* C13: when WaitToDrain returns, no stream handler started by a connection
\* of the hub is still running.
C13_DrainWaitsForStreamHandlers ==
    [][(drain = "waiting" /\ drain' = "returned")
        => \A c \in Conns : \A i \in 1..Len(handlers'[c]) :
              handlers'[c][i] # "running"]_vars

\* c has a valid token and a Preamble without services, and its capability
\* check is over
EmptyServicesChecked(c) ==
    /\ PreambleRead(c)
    /\ preamble[c].Token # "invalid"
    /\ Services(c) = <<>>
    /\ fw[c] # "none"
    /\ pc[c] \notin {"ValidateToken", "HasCapability"}

\* C14: with a valid token and an empty service list the capability check is
\* skipped, with or without hzn:serve: the only Confirmation is "connected",
\* written as the next step, no AddService or RemoveService call is ever
\* made, and no step of the connection changes Hub.active.
C14_EmptyServicesSkipCapability ==
    /\ [](\A c \in Conns :
            EmptyServicesChecked(c) =>
                /\ addLog[c] = <<>>
                /\ removeLog[c] = <<>>
                /\ KeysOf(c) = {}
                /\ Statuses(c) = IF pc[c] = "WriteConfirmation"
                                 THEN <<>> ELSE <<"connected">>)
    /\ [][\A c \in Conns :
            (EmptyServicesChecked(c)' /\ StepOf(c)) => active' = active]_vars

C14_Witness ==
    \E c \in Conns :
        /\ EmptyServicesChecked(c)
        /\ preamble[c].Token = "agent"
        /\ pc[c] = "AcceptStream"
        /\ wrote[c] = <<[status |-> "connected", ok |-> TRUE]>>
        /\ \E k \in ServiceIds : active[k] # NoSession

\* C17: when the handler of a connection has returned, the frame reader and
\* the frame writer it made for the connection and for each accepted stream
\* have been recycled, whichever way it returned.
C17_EverythingRecycled ==
    \A c \in HznConns :
        Finished(c) =>
            /\ fr[c] # "live"
            /\ fw[c] # "live"
            /\ \A i \in 1..Len(streams[c]) : sfr[c][i] # "live" /\ sfw[c][i] # "live"

C17_Witness ==
    \E c \in HznConns :
        /\ Finished(c)
        /\ streams[c] = <<"fwErr", "dispatched">>
        /\ sfr[c] = <<"recycled", "recycled">>
        /\ sfw[c] = <<"none", "recycled">>
        /\ fr[c] = "recycled"

\* the handler of c is over and c never became Active
HandshakeFailed(c) == Finished(c) /\ sess[c] = "none"

\* the frame codec of the connection failed: no reader, no decodable
\* Preamble of tag 1, no writer, or a frame that could not be written
CodecError(c) ==
    \/ ~PreambleRead(c)
    \/ fw[c] = "none"
    \/ \E i \in 1..Len(wrote[c]) : ~wrote[c][i].ok

ConfirmationStatuses == {"connected", "bad-token", "bad-token-capability"}

AtMostOneConfirmation(c) ==
    /\ Len(wrote[c]) <= 1
    /\ \A i \in 1..Len(wrote[c]) : wrote[c][i].status \in ConfirmationStatuses

RejectedByStatus(c) == Len(wrote[c]) = 1 /\ wrote[c][1].status # "connected"

\* C18 (as stated): at most one Confirmation is written on a connection, its
\* status is one of the three; a failed handshake is seen either as a
\* Confirmation of a status other than "connected" or, for protocol-level
\* errors only, as a close without Confirmation.
C18_FailureIsStatusOrProtocolClose ==
    \A c \in HznConns :
        /\ AtMostOneConfirmation(c)
        /\ HandshakeFailed(c) =>
              \/ RejectedByStatus(c)
              \/ CodecError(c) /\ \A i \in 1..Len(wrote[c]) : ~wrote[c][i].ok

\* C18 (amended): at most one Confirmation is written on a connection, its
\* status is one of the three; a failed handshake is seen as a Confirmation
\* of a status other than "connected" (token, capability), as a close
\* without Confirmation (protocol-level errors and also an AddService error),
\* or as a close after the "connected" Confirmation (yamux.Server failed).
C18_FailureIsStatusOrClose ==
    \A c \in HznConns :
        /\ AtMostOneConfirmation(c)
        /\ HandshakeFailed(c) =>
              \/ RejectedByStatus(c)
              \/ CodecError(c) /\ \A i \in 1..Len(wrote[c]) : ~wrote[c][i].ok
              \/ addLog[c] # <<>> /\ ~Last(addLog[c]).ok /\ wrote[c] = <<>>
              \/ wrote[c] = <<[status |-> "connected", ok |-> TRUE]>>
        /\ (sess[c] # "none") => wrote[c] = <<[status |-> "connected", ok |-> TRUE]>>

C18_Witness ==
    \E c \in HznConns :
        /\ HandshakeFailed(c)
        /\ ~CodecError(c)
        /\ addLog[c] # <<>> /\ ~Last(addLog[c]).ok
        /\ wrote[c] = <<>>

\* --------------------------------------------- claims on the InboundServer

\* the call presents no token: no metadata, or no authorization value
TokenMissing(r) == ~r.md \/ r.auth = <<>>

\* the call presents a token of role CONTROL that passes validation
ControlToken(r) == ~TokenMissing(r) /\ r.auth[1] = "control"

\* the updates invoked on behalf of call k
AppliedBy(k) == {i \in 1..Len(applied) : applied[i].call = k}

\* C15: an AddServices or AddLabeLink call whose token is missing, fails
\* validation or has a role other than CONTROL returns an error and never
\* invokes AddRecentAccountServices / AddRecentLabelLinks.
C15_ControlRoleRequired ==
    \A k \in InboundCalls :
        /\ ~ControlToken(ireq[k]) =>
              /\ AppliedBy(k) = {}
              /\ ipc[k] # "update"
              /\ ipc[k] = "done" => ireply[k].err # "nil" /\ ~ireply[k].noop
        /\ AppliedBy(k) # {} => ControlToken(ireq[k]) /\ ipc[k] = "done"

C15_Witness ==
    \E k \in InboundCalls :
        /\ ipc[k] = "done"
        /\ ireq[k] = [op |-> "AddLabeLink", md |-> TRUE, auth |-> <<"agent">>]
        /\ ireply[k].err # "nil"
        /\ \E j \in InboundCalls : AppliedBy(j) # {}
        /\ AppliedBy(k) = {}

\* call k is past checkValidToken
InboundChecked(k) == ipc[k] \in {"update", "done"}

\* C16 (as stated): a call whose authorization metadata is absent, missing
\* or multiple-valued is rejected with ErrBadControlToken.
C16_NotSingleValuedRejected ==
    \A k \in InboundCalls :
        (InboundChecked(k) /\ (~ireq[k].md \/ Len(ireq[k].auth) # 1))
            => ierr[k] = ErrBadControlToken

\* C16 (amended): the bearer token is the first value of the authorization
\* entry; a call without metadata or without an authorization value is
\* rejected with ErrBadControlToken in both cases; a multiple-valued entry
\* is not rejected as such: the outcome is that of its first value alone.
C16_FirstValueDecides ==
    /\ \A k \in InboundCalls :
          (InboundChecked(k) /\ TokenMissing(ireq[k])) => ierr[k] = ErrBadControlToken
    /\ \A j, k \in InboundCalls :
          (/\ InboundChecked(j) /\ InboundChecked(k)
           /\ ~TokenMissing(ireq[j]) /\ ~TokenMissing(ireq[k])
           /\ ireq[j].auth[1] = ireq[k].auth[1])
              => ierr[j] = ierr[k]
    /\ \A k \in InboundCalls :
          (InboundChecked(k) /\ ControlToken(ireq[k])) => ierr[k] = "nil"

C16_Witness ==
    \E j, k \in InboundCalls :
        /\ ipc[j] = "done" /\ ipc[k] = "done"
        /\ ireq[j].md /\ ireq[j].auth = <<"control", "invalid">>
        /\ ierr[j] = "nil" /\ AppliedBy(j) # {}
        /\ ~ireq[k].md
        /\ ierr[k] = ErrBadControlToken

\* ---------------------------------------------------- claims on GRPCDial

\* the connections grpc.Dial established to target t
EstablishedTo(t) == {i \in 1..Len(dials) : dials[i].target = t /\ dials[i].ok}

\* C19: callers dialing the same target for the first time at the same time
\* establish one connection only, each caller that gets a client gets it
\* over that connection, and the cache holds the one connection of a target.
C19_OneConnectionPerTarget ==
    /\ \A t \in Targets :
          /\ Cardinality(EstablishedTo(t)) <= 1
          /\ grpcConns[t] # NoConn => EstablishedTo(t) = {grpcConns[t]}
          /\ grpcConns[t] = NoConn => EstablishedTo(t) = {}
    /\ \A k \in Callers :
          (dpc[k] = "done" /\ ~dres[k].err) =>
              /\ dres[k].cc # NoConn
              /\ dres[k].cc = grpcConns[dtarget[k]]

C19_Witness ==
    /\ \A k \in Callers :
          /\ dpc[k] = "done" /\ ncalls[k] = 1
          /\ dtarget[k] = 1
          /\ dhit[k] = NoConn
          /\ ~dres[k].err
    /\ Len(dials) = 1

\* C20: a grpc.Dial error is returned to the caller of Dial and leaves the
\* cache as it was, without an entry for the target; a Dial that finds no
\* entry for its target under the write lock calls grpc.Dial.
C20_DialFailureNotCached ==
    /\ [][\A k \in Callers :
            (dpc[k] = "grpc.Dial" /\ dpc'[k] = "done" /\ ~Last(dials').ok) =>
                /\ dres'[k].err
                /\ grpcConns' = grpcConns
                /\ grpcConns'[dtarget[k]] = NoConn]_vars
    /\ [][\A k \in Callers :
            (dpc[k] = "recheck" /\ dpc'[k] # "recheck"
             /\ grpcConns[dtarget[k]] = NoConn) => dpc'[k] = "grpc.Dial"]_vars
    /\ [](\A k \in Callers :
            (dpc[k] = "done" /\ dres[k].err) => dres[k].cc = NoConn)

C20_Witness ==
    /\ Len(dials) = 2
    /\ dials[1].target = dials[2].target
    /\ ~dials[1].ok
    /\ dials[2].ok
    /\ grpcConns[dials[1].target] = 2

\* C21: a connection grpc.Dial established is in the cache when Dial returns
\* it, a Dial that finds its target cached returns that connection and calls
\* grpc.Dial for no target already cached, and no step removes or replaces a
\* cached entry.
C21_CacheOnlyGrows ==
    /\ [][\A t \in Targets :
            grpcConns[t] # NoConn => grpcConns'[t] = grpcConns[t]]_vars
    /\ [][\A k \in Callers :
            (dpc[k] # "done" /\ dpc'[k] = "done" /\ ~dres'[k].err) =>
                /\ grpcConns'[dtarget[k]] = dres'[k].cc
                /\ dres'[k].cc # NoConn
                /\ grpcConns[dtarget[k]] # NoConn =>
                      (dials' = dials /\ dres'[k].cc = grpcConns[dtarget[k]])]_vars
    /\ [][dials' # dials => grpcConns[Last(dials').target] = NoConn]_vars

C21_Witness ==
    \E k \in Callers :
        /\ ncalls[k] = 2 /\ dpc[k] = "done"
        /\ dhit[k] # NoConn
        /\ dres[k] = [cc |-> dhit[k], err |-> FALSE]
        /\ Len(dials) = 1 /\ dials[1].by = k
        /\ grpcConns[dtarget[k]] = 1

\* ----------------------------------------------- claims on the Broadcaster

\* the targets of a log of attempts or of errors, in order
TargetsOf(log) == [i \in 1..Len(log) |-> log[i].target]

\* the attempts that failed, in order
FailedAttempts == SelectSeq(attempts, LAMBDA a : a.out # "ok")

\* C22: each call takes the target list the catalog has at that moment and
\* goes through it in order, one attempt per target, whatever failed before;
\* it returns only when every target of the list has been attempted.
C22_EveryTargetAttemptedOnce ==
    /\ [][(bpc # "loop" /\ bpc' = "loop") => btargets' = catalog]_vars
    /\ [](/\ Len(attempts) <= Len(btargets)
          /\ TargetsOf(attempts) = SubSeq(btargets, 1, Len(attempts)))
    /\ [](bpc = "returned" => TargetsOf(attempts) = btargets)
    /\ [][bpc = "loop" =>
            \/ attempts' = attempts
            \/ Len(attempts') = Len(attempts) + 1
                 /\ SubSeq(attempts', 1, Len(attempts)) = attempts]_vars

C22_Witness ==
    /\ bpc = "returned"
    /\ bcalls = 2
    /\ btargets = <<1, 2, 3>>
    /\ attempts = <<[target |-> 1, out |-> "ok"],
                    [target |-> 2, out |-> "dial error"],
                    [target |-> 3, out |-> "ok"]>>
    /\ bret # <<>>

\* C23: the error returned is nil exactly when every target succeeded, and
\* otherwise holds one error for each target that failed, dial or call.
C23_ErrorIffSomeTargetFailed ==
    bpc = "returned" =>
        /\ (bret = <<>>) <=> (\A i \in 1..Len(attempts) : attempts[i].out = "ok")
        /\ TargetsOf(bret) = TargetsOf(FailedAttempts)
        /\ \A i \in 1..Len(bret) : bret[i].err = FailedAttempts[i].out
        /\ TargetsOf(attempts) = btargets

C23_Witness ==
    /\ bpc = "returned"
    /\ Len(attempts) = 3
    /\ attempts[1].out = "call error"
    /\ attempts[2].out = "ok"
    /\ attempts[3].out = "dial error"
    /\ Len(bret) = 2

\* ------------------------------------- claims on the handshake, continued

\* every service of the Preamble of c was registered without error
AllRegistered(c) ==
    /\ Ids(addLog[c]) = Services(c)
    /\ \A i \in 1..Len(addLog[c]) : addLog[c][i].ok

\* the "connected" Confirmation was handed to fw.WriteMarshal on c
ConnectedWritten(c) == \E i \in 1..Len(wrote[c]) : wrote[c][i].status = "connected"

\* C24: when the "connected" Confirmation is written, the token has been
\* validated, the capability check has passed and AddService has succeeded
\* for every service of the Preamble.
C24_ConnectedOnlyAfterRegistration ==
    \A c \in HznConns :
        ConnectedWritten(c) =>
            /\ vt[c] = "valid"
            /\ ValidateToken(preamble[c].Token)
            /\ CapabilityRequired(preamble[c]) => HasCapability(preamble[c].Token, "hzn:serve")
            /\ AllRegistered(c)
            /\ removeLog[c] # <<>> => Returning(c) \/ Finished(c)

C24_Witness ==
    \E c \in HznConns :
        /\ wrote[c] = <<[status |-> "connected", ok |-> TRUE]>>
        /\ preamble[c] = [Token |-> "serve", Services |-> <<1, 2>>]
        /\ Len(addLog[c]) = 2
        /\ pc[c] = "yamux.Server"

\* C25: if the handshake fails after every service was registered (the
\* "connected" write fails or yamux.Server fails), RemoveService has been
\* called for every advertised service when the handler is over; a handler
\* without a session adds no entry to Hub.active and accepts no stream.
C25_LateFailureDeregisters ==
    \A c \in HznConns :
        /\ sess[c] = "none" => KeysOf(c) = {} /\ streams[c] = <<>>
        /\ (Finished(c) /\ sess[c] = "none" /\ AllRegistered(c) /\ ConnectedWritten(c))
              => Ids(removeLog[c]) = Services(c)

C25_Witness ==
    \E c \in HznConns :
        /\ Finished(c) /\ sess[c] = "none"
        /\ wrote[c] = <<[status |-> "connected", ok |-> TRUE]>>
        /\ Len(Services(c)) = 2
        /\ AllRegistered(c)
        /\ Len(removeLog[c]) = 2
        /\ ~removeLog[c][1].ok

\* C29: a stream whose frame reader or writer cannot be made gets no
\* handler and the loop goes on accepting: the session stays open, Hub.active
\* and the RemoveService calls are as before.
C29_StreamSetupErrorSkipsStream ==
    [][\A c \in HznConns :
         (Len(streams'[c]) = Len(streams[c]) + 1 /\ Last(streams'[c]) # "dispatched") =>
            /\ Last(handlers'[c]) = "none"
            /\ SubSeq(handlers'[c], 1, Len(handlers[c])) = handlers[c]
            /\ pc'[c] = "AcceptStream"
            /\ sess'[c] = "open"
            /\ active' = active
            /\ removeLog' = removeLog
            /\ conn'[c] = "open"]_vars

C29_Witness ==
    \E c \in HznConns :
        /\ streams[c] = <<"frErr", "dispatched">>
        /\ handlers[c] = <<"none", "running">>
        /\ pc[c] = "AcceptStream"
        /\ sess[c] = "open"
        /\ KeysOf(c) = {1, 2}
        /\ removeLog[c] = <<>>

\* C27: no frame writer is written to after its Recycle, none is recycled
\* twice, and the reader and writer of a stream are not recycled while the
\* handler they were given to is still running.
C27_NoUseAfterRecycle ==
    [][\A c \in HznConns :
         /\ wrote'[c] # wrote[c] => fw[c] = "live"
         /\ fw'[c] # "recycled twice"
         /\ \A i \in 1..Len(handlers[c]) :
               (sfr'[c][i] # sfr[c][i] \/ sfw'[c][i] # sfw[c][i])
                   => handlers[c][i] # "running"]_vars

\* the update call k made on the Client
UpdateOf(k) == applied[CHOOSE i \in AppliedBy(k) : TRUE]

\* C30: a call with a valid CONTROL token that has returned made exactly one
\* update, AddRecentAccountServices for AddServices and AddRecentLabelLinks
\* for AddLabeLink; AddServices returns the error of its update, AddLabeLink
\* returns nil whether its update failed or not.
C30_UpdateOnceAndItsError ==
    \A k \in InboundCalls :
        (ipc[k] = "done" /\ ControlToken(ireq[k])) =>
            /\ Cardinality(AppliedBy(k)) = 1
            /\ ireply[k].noop
            /\ IF ireq[k].op = "AddServices"
               THEN /\ UpdateOf(k).op = "AddRecentAccountServices"
                    /\ (ireply[k].err = "nil") <=> UpdateOf(k).ok
               ELSE /\ UpdateOf(k).op = "AddRecentLabelLinks"
                    /\ ireply[k].err = "nil"

C30_Witness ==
    \E j, k \in InboundCalls :
        /\ ipc[j] = "done" /\ ipc[k] = "done"
        /\ ControlToken(ireq[j]) /\ ControlToken(ireq[k])
        /\ ireq[j].op = "AddServices" /\ ireq[k].op = "AddLabeLink"
        /\ ~UpdateOf(j).ok /\ ireply[j].err = "update failed"
        /\ ~UpdateOf(k).ok /\ ireply[k].err = "nil"

\* ------------------------------------------------- claims on the teardown

\* C26: an Active session is torn down in this order: its entries leave
\* Hub.active, then the session is closed, then RemoveService is called for
\* its services, and the connection is closed last; once a RemoveService of
\* its teardown has been issued no key of Hub.active leads to the session.
C26_TeardownOrder ==
    /\ [][\A c \in Conns :
            (sess[c] = "open" /\ sess'[c] = "closed") =>
                KeysOf(c) = {} /\ "delete" \notin Range(deferred[c])]_vars
    /\ [][\A c \in Conns :
            removeLog'[c] # removeLog[c] => sess[c] = "closed" /\ KeysOf(c) = {}]_vars
    /\ [][\A c \in Conns :
            (conn[c] = "open" /\ conn'[c] = "closed") =>
                /\ Ids(removeLog[c]) = Services(c)
                /\ sess[c] = "closed"
                /\ deferred'[c] = <<>>]_vars
    /\ [](\A c \in Conns : removeLog[c] # <<>> => KeysOf(c) = {})

C26_Witness ==
    \E c, b \in Conns :
        /\ Finished(c)
        /\ Services(c) = <<1, 2>>
        /\ Len(removeLog[c]) = 2
        /\ sess[c] = "closed" /\ conn[c] = "closed"
        /\ pc[b] = "AcceptStream"
        /\ KeysOf(b) # {}

\* every change of Hub.active is made by the handler that holds Hub.mu, which
\* keeps it over its whole loop
MutationsUnderLock ==
    [][active' # active =>
         /\ hmu # NoSession
         /\ hmu' = hmu
         /\ midx'[hmu] = midx[hmu] + 1
         /\ \A c \in Conns \ {hmu} : midx'[c] = midx[c] /\ pc'[c] = pc[c]]_vars

\* a session between its insert and its deferred delete
Installing(c) == pc[c] = "Install.loop" \/ (hmu = c /\ Top(deferred[c]) = "delete")

\* C28: Hub.active changes only under the write lock, a session's entries
\* are inserted in one critical section and removed in one, no two handlers
\* are in a critical section together, and whoever holds the read lock (so no
\* handler holds the write lock) sees every session with all of its
\* advertised services or with none.
C28_MapMutatedAtomically ==
    /\ MutationsUnderLock
    /\ [](\A c \in Conns : Installing(c) => hmu = c)
    /\ [](hmu = NoSession =>
            \A c \in Conns : KeysOf(c) = {} \/ KeysOf(c) = Range(Services(c)))

\* ------------------------------------------------ claims on Serve and Run

\* the handler of c has a step to take, or waits for Hub.mu held by another
HandlerCanGoOn(c) ==
    \/ ENABLED (\/ MuLockInstall(c) \/ InsertKey(c) \/ MuUnlockInstall(c)
                \/ AcceptStreamError(c)
                \/ MuLockDelete(c) \/ DeleteKey(c) \/ MuUnlockDelete(c)
                \/ DeferSessClose(c) \/ DeferRemoveService(c)
                \/ DeferFrRecycle(c) \/ DeferConnClose(c))
    \/ hmu \notin {NoSession, c}

\* C31: Serve returns on the first Accept error, whatever its handlers are
\* doing, and accepts nothing afterwards; its return changes nothing of the
\* handlers it spawned, which go on; Run returns nil when the ingress ended
\* with a *net.OpError whose Err reads "use of closed network connection"
\* and returns every other error of the ingress as it is.
C31_ServeAndRunReturn ==
    /\ [](serving => ENABLED AcceptError)
    /\ [][(serving /\ ~serving') =>
             UNCHANGED <<pc, conn, deferred, fr, fw, rd, preamble, vt, wrote,
                         addLog, removeLog, sess, active, streams, streamVars,
                         drainVars, muVars>>]_vars
    /\ [][~serving =>
             /\ ~serving'
             /\ \A c \in Conns : pc[c] = "idle" => pc'[c] = "idle"]_vars
    /\ [](\A c \in Conns :
            (~serving /\ pc[c] \notin {"idle", "done"}) => HandlerCanGoOn(c))
    /\ [](rpc = "returned" =>
            /\ (ingressErr.type = "*net.OpError" /\ ingressErr.Err = ClosedConn)
                   => runRet = NilErr
            /\ (ingressErr.type # "*net.OpError" \/ ingressErr.Err # ClosedConn)
                   => runRet = ingressErr)

C31_Witness ==
    /\ ~serving
    /\ \E c, b \in Conns :
        /\ pc[c] = "return"
        /\ sess[c] = "closed"
        /\ conn[c] = "open"
        /\ pc[b] = "idle"
    /\ rpc = "returned"
    /\ ingressErr = [type |-> "*net.OpError", Op |-> "accept", Err |-> ClosedConn]
    /\ runRet = NilErr

====
